---- MODULE Spec2Model ----
(***************************************************************************)
(* SafeBank file integrity monitor (SafeBank_FIM/monitor.py): the handler  *)
(* of watchdog events, its classification of an event against the loaded   *)
(* baseline, the alert pipeline with its bounded history, and the dashboard *)
(* data the Flask thread renders.                                           *)
(***************************************************************************)
EXTENDS Integers, Sequences, FiniteSets, TLC

(***************************************************************************)
(* Bounds of the model.                                                    *)
(***************************************************************************)
\* number of events the watcher delivers in one behaviour of Spec
MaxEvents == 2
\* number of events the watcher delivers in one behaviour of SpecCap
MaxCapEvents == 52
\* number of events the watcher delivers in one behaviour of SpecConc
MaxConcEvents == 52
\* the wall clock runs from 0 to MaxClock
MaxClock == 1
MaxQueuedEvents == 3
MaxTreeFiles == 3
MaxLifeEvents == 1
MaxPipelineEvents == 1
\* bytes a read() returns at most (65536 in the source, scaled down)
ChunkSize == 2
\* the digest accumulator is kept modulo HashMod (2^256 in SHA-256, scaled down)
HashMod == 251
\* the longest content hashed on its own, and how often it is hashed
MaxHashLen == 3
MaxHashCalls == 2
\* events fed to the two monitors side by side
MaxTwinEvents == 2

(***************************************************************************)
(* Program constants.                                                      *)
(***************************************************************************)
\* monitor.py:185  if len(DASHBOARD_DATA['alerts']) > 50
MaxAlerts == 50

\* what calculate_file_hash returns on failure; no digest equals it
None == <<"None">>

(***************************************************************************)
(* Paths.  A path is the sequence of its components; CONFIG['MONITOR_DIR'] *)
(* is relative to the working directory, and watchdog reports src_path as  *)
(* the watched path joined with the path below it.                         *)
(***************************************************************************)
MONITOR_DIR == <<"SafeBank_FIM">>

\* keys of baseline['files'] as create_baseline writes them
TrackedA == <<"a.txt">>
TrackedB == <<"conf", "db_config.ini">>
Untracked == <<"malware.exe">>
RelPaths == {TrackedA, TrackedB, Untracked}

join(dir, rel) == dir \o rel

SrcPaths == {join(MONITOR_DIR, r) : r \in RelPaths}

RECURSIVE CommonPrefixLen(_, _)
CommonPrefixLen(p, q) ==
  IF p = <<>> \/ q = <<>> \/ Head(p) # Head(q) THEN 0
  ELSE 1 + CommonPrefixLen(Tail(p), Tail(q))

\* os.path.relpath(path, start): drop the common prefix, climb out of the rest
\* of start with "..", descend into the rest of path; "." when nothing is left
relpath(path, start) ==
  LET i == CommonPrefixLen(path, start)
      ups == [k \in 1..(Len(start) - i) |-> ".."]
      rest == SubSeq(path, i + 1, Len(path))
  IN IF ups \o rest = <<>> THEN <<".">> ELSE ups \o rest

\* os.path.basename(path)
basename(path) == IF path = <<>> THEN "" ELSE path[Len(path)]

(***************************************************************************)
(* Hashing.  A file is what open/read do on it: its bytes, or a failure of *)
(* open or of a read.  The digest is an incremental accumulator fed chunk  *)
(* by chunk and printed as hex digits.                                     *)
(***************************************************************************)
\* fail: "none", or where the I/O error strikes
ReadableFile(c) == [content |-> c, fail |-> "none"]

\* hashlib.sha256()
sha256_new == 7

\* an update that also absorbs the end of the data it was given
RECURSIVE sha256_update_framed(_, _)
sha256_update_framed(acc, data) ==
  IF data = <<>> THEN (acc * 31 + 1) % HashMod
  ELSE sha256_update_framed((acc * 31 + Head(data) + 2) % HashMod, Tail(data))

\* sha256.update(data): absorb the bytes of data in order
RECURSIVE sha256_update(_, _)
sha256_update(acc, data) ==
  IF data = <<>> THEN acc
  ELSE sha256_update((acc * 31 + Head(data) + 1) % HashMod, Tail(data))

HexDigits == <<"0", "1", "2", "3", "4", "5", "6", "7",
               "8", "9", "a", "b", "c", "d", "e", "f">>

\* sha256.hexdigest(): lowercase hex, fixed width
hexdigest(acc) == <<HexDigits[((acc \div 16) % 16) + 1], HexDigits[(acc % 16) + 1]>>

\* the read loop of calculate_file_hash from offset pos on
RECURSIVE read_loop(_, _, _)
read_loop(content, pos, acc) ==
  LET data == SubSeq(content, pos + 1,
                     IF pos + ChunkSize < Len(content) THEN pos + ChunkSize
                     ELSE Len(content))
  IN IF data = <<>> THEN acc
     ELSE read_loop(content, pos + Len(data), sha256_update(acc, data))

\* calculate_file_hash returning the digest of what it had read (nothing) when
\* open or read fails, instead of None
calculate_file_hash_zero(file) ==
  hexdigest(read_loop(IF file.fail = "none" THEN file.content ELSE <<>>, 0, sha256_new))

\* FileChangeHandler.calculate_file_hash
calculate_file_hash(file) ==
  IF file.fail # "none" THEN None
  ELSE hexdigest(read_loop(file.content, 0, sha256_new))

\* Python truth value of what calculate_file_hash returns (None or a string)
Truthy(h) == h # None /\ h # <<>>

(***************************************************************************)
(* The baseline file and load_baseline.                                    *)
(***************************************************************************)
ContentA == <<0>>
ContentB == <<1, 0, 1>>

FileRecord(c) == [hash |-> calculate_file_hash(ReadableFile(c)), size |-> Len(c)]

\* a baseline.json written by create_baseline for MONITOR_DIR
GeneratedBaseline ==
  [metadata |-> [created |-> "2025-06-01T09:00:00", total_files |-> 2],
   files |-> (TrackedA :> FileRecord(ContentA)) @@ (TrackedB :> FileRecord(ContentB))]

\* {'metadata': {}, 'files': {}}
EmptyBaseline == [metadata |-> <<>>, files |-> <<>>]

\* what open/json.load find at CONFIG['BASELINE_FILE']
BaselineFiles ==
  {[ok |-> TRUE, json |-> GeneratedBaseline],
   [ok |-> TRUE, json |-> EmptyBaseline],
   [ok |-> FALSE, json |-> EmptyBaseline]}

load_baseline(f) == IF f.ok THEN f.json ELSE EmptyBaseline

\* dict.get(key, default)
get(d, key, default) == IF key \in DOMAIN d THEN d[key] ELSE default

(***************************************************************************)
(* Strings the alert pipeline takes apart.  Chars gives the characters of  *)
(* a string literal of the source; split is str.split().                   *)
(***************************************************************************)
FileModified == "File Modified"
NewFileDetected == "New File Detected"
FileDeleted == "File Deleted"
AlertTypes == {FileModified, NewFileDetected, FileDeleted}

Chars(s) ==
  CASE s = "File Modified" -> <<"F","i","l","e"," ","M","o","d","i","f","i","e","d">>
    [] s = "New File Detected" ->
         <<"N","e","w"," ","F","i","l","e"," ","D","e","t","e","c","t","e","d">>
    [] s = "File Deleted" -> <<"F","i","l","e"," ","D","e","l","e","t","e","d">>
    [] s = "MODIFIED" -> <<"M","O","D","I","F","I","E","D">>
    [] s = "CREATED" -> <<"C","R","E","A","T","E","D">>
    [] s = "DELETED" -> <<"D","E","L","E","T","E","D">>

\* str.split(): the maximal runs of non-blank characters, in order
RECURSIVE split_from(_, _, _)
split_from(cs, word, words) ==
  IF cs = <<>> THEN (IF word = <<>> THEN words ELSE Append(words, word))
  ELSE IF Head(cs) = " "
       THEN split_from(Tail(cs), <<>>, IF word = <<>> THEN words ELSE Append(words, word))
       ELSE split_from(Tail(cs), Append(word, Head(cs)), words)

split(cs) == split_from(cs, <<>>, <<>>)

DetailsModified == "Unauthorized content modification detected"
DetailsCreated == "Unauthorized file added to system"
DetailsDeleted == "Critical file removed without authorization"
DetailsFallback == "Security-related change detected"

\* _trigger_alert, lines 168-172: {...}.get(alert_type.split()[-1], fallback)
details_for(alert_type) ==
  LET words == split(Chars(alert_type))
      key == words[Len(words)]
  IN CASE key = Chars("MODIFIED") -> DetailsModified
       [] key = Chars("CREATED") -> DetailsCreated
       [] key = Chars("DELETED") -> DetailsDeleted
       [] OTHER -> DetailsFallback

(***************************************************************************)
(* State.                                                                  *)
(***************************************************************************)
VARIABLES
  baseline,        \* FileChangeHandler.baseline, as load_baseline returned it
  DASHBOARD_DATA,  \* the module-level dict the handler writes and Flask reads
  now,             \* datetime.now()
  out,             \* what the last handler call logged, sent and printed
  last,            \* the event the watcher delivered last, with what the
                   \* handler met: the file at src_path and the SMTP server
  allAlerts,       \* every alert appended to DASHBOARD_DATA['alerts'] so far
  pc,              \* where the watcher thread is inside the handler
  pending,         \* the locals of the running _trigger_alert
  view,            \* what the dashboard thread read last
  main,            \* where the main thread is in start_monitoring, and the
                   \* baseline file it found
  observer,        \* the watchdog observer thread: new, running, stopping, exited
  queue,           \* the events the observer has queued for its handler
  gen,             \* create_baseline: the files still to walk, the baseline so far
  call,            \* the function called last on its own: its arguments and result
  twin             \* DASHBOARD_DATA of monitor_files.py run beside monitor.py

vars == <<baseline, DASHBOARD_DATA, now, out, last, allAlerts, pc, pending, view,
          main, observer, queue, gen, call, twin>>


Kinds == {"MODIFIED", "CREATED", "DELETED"}
Smtp == {"ok", "refused"}

\* what a handler that never opens the file is given for it
NoFile == [content |-> <<>>, fail |-> "open"]

\* the files a MODIFIED event can find at src_path
Files ==
  {ReadableFile(ContentA), ReadableFile(ContentB),
   [content |-> <<>>, fail |-> "open"], [content |-> ContentB, fail |-> "read"]}

(***************************************************************************)
(* EmailAlertSystem.send_alert.  Every failure of the transport is caught: *)
(* an error is logged, the alert printed, False returned.                  *)
(***************************************************************************)
\* send_alert without its except clause
send_alert_raising(smtp) ==
  IF smtp = "ok"
  THEN [raised |-> FALSE, value |-> TRUE, out |-> <<"smtp", "email.info">>]
  ELSE [raised |-> TRUE, value |-> FALSE, out |-> <<"smtp">>]

send_alert(smtp) ==
  IF smtp = "ok"
  THEN [raised |-> FALSE, value |-> TRUE, out |-> <<"smtp", "email.info">>]
  ELSE [raised |-> FALSE, value |-> FALSE, out |-> <<"smtp", "email.error", "print">>]

(***************************************************************************)
(* FileChangeHandler._trigger_alert                                        *)
(***************************************************************************)
Alert(t, alert_type, file_path, details) ==
  [time |-> t, type |-> alert_type, file |-> basename(file_path),
   path |-> file_path, details |-> details]

\* alerts[-50:]
last_n(alerts, n) ==
  IF Len(alerts) <= n THEN alerts ELSE SubSeq(alerts, Len(alerts) - n + 1, Len(alerts))

\* alerts[:50]
first_n(alerts, n) == IF Len(alerts) <= n THEN alerts ELSE SubSeq(alerts, 1, n)

\* lines 185-186 keeping the oldest entries
cap_oldest(alerts) == IF Len(alerts) > MaxAlerts THEN first_n(alerts, MaxAlerts) ELSE alerts

\* lines 185-186
cap(alerts) == IF Len(alerts) > MaxAlerts THEN last_n(alerts, MaxAlerts) ELSE alerts

\* _trigger_alert recording the alert before it logs and sends
trigger_alert_append_first(D, alert_type, file_path, smtp, t) ==
  LET details == details_for(alert_type)
      sent == send_alert(smtp)
      alert == Alert(t, alert_type, file_path, details)
  IN [raised |-> sent.raised,
      data |-> [D EXCEPT !.alerts = cap(Append(D.alerts, alert))],
      out |-> <<"append", "log.warning">> \o sent.out,
      appended |-> <<alert>>]

\* _trigger_alert recording the alert once before and once after the send
trigger_alert_twice(D, alert_type, file_path, smtp, t) ==
  LET details == details_for(alert_type)
      sent == send_alert(smtp)
      alert == Alert(t, alert_type, file_path, details)
  IN [raised |-> sent.raised,
      data |-> [D EXCEPT !.alerts = cap(Append(cap(Append(D.alerts, alert)), alert))],
      out |-> <<"log.warning">> \o sent.out \o <<"append">>,
      appended |-> <<alert, alert>>]

\* the result of a call: whether it raised, the data it left, what it emitted,
\* the alerts it appended
trigger_alert(D, alert_type, file_path, smtp, t) ==
  LET details == details_for(alert_type)
      sent == send_alert(smtp)
      alert == Alert(t, alert_type, file_path, details)
  IN IF sent.raised
     THEN [raised |-> TRUE, data |-> D, out |-> <<"log.warning">> \o sent.out,
           appended |-> <<>>]
     ELSE [raised |-> FALSE,
           data |-> [D EXCEPT !.alerts = cap(Append(D.alerts, alert))],
           out |-> <<"log.warning">> \o sent.out \o <<"append">>,
           appended |-> <<alert>>]

(***************************************************************************)
(* FileChangeHandler._process_event                                        *)
(***************************************************************************)
Quiet(D, b, o) ==
  [raised |-> FALSE, data |-> D, baseline |-> b, out |-> o, appended |-> <<>>]

\* the MODIFIED branch without the comparison of the digests
verdict_any_write(b, relative_path, change_type, current_hash) ==
  CASE change_type = "MODIFIED" ->
         IF Truthy(current_hash) /\ relative_path \in DOMAIN b.files
         THEN FileModified ELSE "None"
    [] change_type = "CREATED" ->
         IF relative_path \notin DOMAIN b.files THEN NewFileDetected ELSE "None"
    [] change_type = "DELETED" ->
         IF relative_path \in DOMAIN b.files THEN FileDeleted ELSE "None"
    [] OTHER -> "None"

\* the DELETED branch without the lookup in the baseline
verdict_any_delete(b, relative_path, change_type, current_hash) ==
  CASE change_type = "MODIFIED" ->
         IF Truthy(current_hash) /\ relative_path \in DOMAIN b.files
         THEN (IF current_hash # b.files[relative_path].hash THEN FileModified ELSE "None")
         ELSE "None"
    [] change_type = "CREATED" ->
         IF relative_path \notin DOMAIN b.files THEN NewFileDetected ELSE "None"
    [] change_type = "DELETED" -> FileDeleted
    [] OTHER -> "None"

\* the DELETED branch with its test inverted
verdict_delete_inverted(b, relative_path, change_type, current_hash) ==
  CASE change_type = "MODIFIED" ->
         IF Truthy(current_hash) /\ relative_path \in DOMAIN b.files
         THEN (IF current_hash # b.files[relative_path].hash THEN FileModified ELSE "None")
         ELSE "None"
    [] change_type = "CREATED" ->
         IF relative_path \notin DOMAIN b.files THEN NewFileDetected ELSE "None"
    [] change_type = "DELETED" ->
         IF relative_path \notin DOMAIN b.files THEN FileDeleted ELSE "None"
    [] OTHER -> "None"

\* the CREATED branch without the lookup in the baseline
verdict_any_create(b, relative_path, change_type, current_hash) ==
  CASE change_type = "MODIFIED" ->
         IF Truthy(current_hash) /\ relative_path \in DOMAIN b.files
         THEN (IF current_hash # b.files[relative_path].hash THEN FileModified ELSE "None")
         ELSE "None"
    [] change_type = "CREATED" -> NewFileDetected
    [] change_type = "DELETED" ->
         IF relative_path \in DOMAIN b.files THEN FileDeleted ELSE "None"
    [] OTHER -> "None"

\* lines 150-162: the alert type the event is classified as, or None; KeyError
\* when the baseline record of the path holds no 'hash'
verdict(b, relative_path, change_type, current_hash) ==
  CASE change_type = "MODIFIED" ->
         IF Truthy(current_hash) /\ relative_path \in DOMAIN b.files
         THEN (IF "hash" \notin DOMAIN b.files[relative_path] THEN "KeyError"
               ELSE IF current_hash # b.files[relative_path].hash THEN FileModified
               ELSE "None")
         ELSE "None"
    [] change_type = "CREATED" ->
         IF relative_path \notin DOMAIN b.files THEN NewFileDetected ELSE "None"
    [] change_type = "DELETED" ->
         IF relative_path \in DOMAIN b.files THEN FileDeleted ELSE "None"
    [] OTHER -> "None"

\* lines 148-162, the body of the try: raised tells whether an exception left it
process_event_body(D, b, file_path, change_type, file, smtp, t) ==
  LET triggered(r, hashed) ==
        [raised |-> r.raised, data |-> r.data, baseline |-> b,
         out |-> hashed \o r.out, appended |-> r.appended]
      branch(v, hashed) ==
        IF v = "KeyError"
        THEN [raised |-> TRUE, data |-> D, baseline |-> b, out |-> hashed,
              appended |-> <<>>]
        ELSE IF v = "None" THEN Quiet(D, b, hashed)
        ELSE triggered(trigger_alert(D, v, file_path, smtp, t), hashed)
      compare(relative_path, current_hash) ==
        branch(verdict(b, relative_path, change_type, current_hash),
               IF change_type = "MODIFIED" /\ current_hash = None
               THEN <<"hash.error">> ELSE <<>>)
  IN compare(relpath(file_path, MONITOR_DIR),
             IF change_type = "MODIFIED" THEN calculate_file_hash(file) ELSE None)

\* _process_event without its try/except: the exception goes on to the caller
process_event_uncaught(D, b, file_path, change_type, file, smtp, t) ==
  process_event_body(D, b, file_path, change_type, file, smtp, t)

\* _process_event forgetting the path it reported deleted
process_event_forgets(D, b, file_path, change_type, file, smtp, t) ==
  LET forgetting(r, kept) ==
        [raised |-> FALSE, data |-> r.data,
         baseline |-> IF change_type = "DELETED" /\ r.appended # <<>>
                      THEN [b EXCEPT !.files = [k \in kept |-> b.files[k]]]
                      ELSE b,
         out |-> r.out, appended |-> r.appended]
  IN forgetting(process_event_body(D, b, file_path, change_type, file, smtp, t),
                DOMAIN b.files \ {relpath(file_path, MONITOR_DIR)})

\* lines 146-165: every Exception of the body is caught and logged
process_event(D, b, file_path, change_type, file, smtp, t) ==
  LET caught(r) ==
        [raised |-> FALSE, data |-> r.data, baseline |-> r.baseline,
         out |-> r.out \o (IF r.raised THEN <<"handler.error">> ELSE <<>>),
         appended |-> r.appended]
  IN caught(process_event_body(D, b, file_path, change_type, file, smtp, t))

(***************************************************************************)
(* FileChangeHandler._update_dashboard_data                                *)
(***************************************************************************)
update_dashboard_data(D, b, t) ==
  [D EXCEPT !.file_count = Cardinality(DOMAIN b.files),
            !.last_scan = get(b.metadata, "created", "Never"),
            !.last_update = t]

\* lines 133-134: _process_event, then _update_dashboard_data unless an
\* exception cut the handler short
handle_file_event(D, b, e, file, smtp, t) ==
  LET refreshed(r) ==
        IF r.raised THEN r
        ELSE [raised |-> FALSE,
              data |-> update_dashboard_data(r.data, r.baseline, t),
              baseline |-> r.baseline,
              out |-> r.out \o <<"update_dashboard">>,
              appended |-> r.appended]
  IN refreshed(process_event(D, b, e.src_path, e.kind, file, smtp, t))

\* the handlers without the test of event.is_directory
on_event_unfiltered(D, b, e, file, smtp, t) == handle_file_event(D, b, e, file, smtp, t)

\* the handlers without their call of _update_dashboard_data
on_event_no_refresh(D, b, e, file, smtp, t) ==
  IF e.is_directory THEN Quiet(D, b, <<>>)
  ELSE process_event(D, b, e.src_path, e.kind, file, smtp, t)

\* on_modified / on_created / on_deleted
on_event(D, b, e, file, smtp, t) ==
  IF e.is_directory THEN Quiet(D, b, <<>>)
  ELSE handle_file_event(D, b, e, file, smtp, t)

(***************************************************************************)
(* Init: the module has been imported, the baseline loaded and the handler *)
(* constructed (lines 18-23, 287-289).                                     *)
(***************************************************************************)
ModuleData == [alerts |-> <<>>, last_scan |-> "None", file_count |-> 0, last_update |-> -1]

\* the main thread in its loop (lines 317-318), whatever baseline file it found
Watching == [pc |-> "loop", found |-> "any", via |-> "none"]

\* no function has been called on its own
NoCall == [fn |-> "none"]

\* monitor_files.py is not running beside monitor.py
NoTwin == [alerts |-> <<>>, last_scan |-> "None", file_count |-> 0]

\* create_baseline is not running
NoGen == [tree |-> {}, todo |-> <<>>, baseline |-> EmptyBaseline, failed |-> {}, done |-> TRUE]

NoEvent == [n |-> 0, kind |-> "NONE", src_path |-> <<>>, is_directory |-> FALSE,
            file |-> NoFile, smtp |-> "ok", before |-> 0]

Init ==
  /\ \E f \in BaselineFiles : baseline = load_baseline(f)
  /\ now = 0
  /\ DASHBOARD_DATA = update_dashboard_data(ModuleData, baseline, now)
  /\ out = <<>>
  /\ last = NoEvent
  /\ allAlerts = <<>>
  /\ pc = "idle"
  /\ pending = <<>>
  /\ view = [alert_count |-> 0, file_count |-> DASHBOARD_DATA.file_count]
  /\ main = Watching
  /\ observer = "running"
  /\ queue = <<>>
  /\ call = NoCall
  /\ twin = NoTwin
  /\ gen = NoGen

(***************************************************************************)
(* The watcher thread delivers one event and runs its handler to the end.  *)
(***************************************************************************)
\* the observer thread calls the handler of one event; an exception that leaves
\* the handler ends the thread
Handle(kind, src_path, is_directory, file, smtp) ==
  LET returned(r) ==
        /\ DASHBOARD_DATA' = r.data
        /\ baseline' = r.baseline
        /\ out' = r.out
        /\ allAlerts' = allAlerts \o r.appended
        /\ pc' = IF r.raised THEN "dead" ELSE pc
  IN /\ pc = "idle"
     /\ returned(on_event(DASHBOARD_DATA, baseline,
                          [kind |-> kind, src_path |-> src_path,
                           is_directory |-> is_directory],
                          file, smtp, now))
     /\ last' = [n |-> last.n + 1, kind |-> kind, src_path |-> src_path,
                 is_directory |-> is_directory, file |-> file, smtp |-> smtp,
                 before |-> Len(allAlerts)]
     /\ UNCHANGED <<now, pending, view, gen, call, twin>>

Deliver(kind, src_path, is_directory, file, smtp) ==
  /\ Handle(kind, src_path, is_directory, file, smtp)
  /\ UNCHANGED <<main, observer, queue>>

FilesFor(kind, is_directory) ==
  IF kind = "MODIFIED" /\ ~is_directory THEN Files ELSE {NoFile}

OnEvent ==
  /\ last.n < MaxEvents
  /\ \E kind \in Kinds, src_path \in SrcPaths, is_directory \in BOOLEAN, smtp \in Smtp :
       \E file \in FilesFor(kind, is_directory) :
         Deliver(kind, src_path, is_directory, file, smtp)

\* the wall clock advances
Tick ==
  /\ now < MaxClock
  /\ now' = now + 1
  /\ UNCHANGED <<baseline, DASHBOARD_DATA, out, last, allAlerts, pc, pending, view, main, observer, queue, gen, call, twin>>

Next == OnEvent \/ Tick

Spec == Init /\ [][Next]_vars

(***************************************************************************)
(* SpecCap: the watcher reports one baselined file deleted again and again, *)
(* long enough for the alert history to pass its cap.                       *)
(***************************************************************************)
OnCapEvent ==
  /\ last.n < MaxCapEvents
  /\ \E smtp \in Smtp : Deliver("DELETED", join(MONITOR_DIR, TrackedA), FALSE, NoFile, smtp)

NextCap == OnCapEvent \/ Tick

SpecCap == Init /\ [][NextCap]_vars

(***************************************************************************)
(* SpecConc: the handler statement by statement on the watcher thread,     *)
(* with the Flask thread rendering the dashboard in between (lines 297-306: *)
(* both threads share DASHBOARD_DATA, and no lock is taken).                *)
(***************************************************************************)
\* on_deleted up to the call of _trigger_alert, lines 141-143, 146-148, 160-162,
\* 168-174
ConcDeliver ==
  /\ pc = "idle"
  /\ last.n < MaxConcEvents
  /\ \E smtp \in Smtp :
       LET src_path == join(MONITOR_DIR, TrackedA)
           v == verdict(baseline, relpath(src_path, MONITOR_DIR), "DELETED", None)
       IN /\ last' = [n |-> last.n + 1, kind |-> "DELETED", src_path |-> src_path,
                      is_directory |-> FALSE, file |-> NoFile, smtp |-> smtp,
                      before |-> Len(allAlerts)]
          /\ IF v = "None"
             THEN pc' = "update" /\ pending' = <<>> /\ out' = <<>>
             ELSE /\ pc' = "send"
                  /\ pending' = [alert_type |-> v, file_path |-> src_path,
                                 details |-> details_for(v), smtp |-> smtp]
                  /\ out' = <<"log.warning">>
  /\ UNCHANGED <<baseline, DASHBOARD_DATA, now, allAlerts, view, main, observer, queue, gen, call, twin>>

\* line 175
ConcSend ==
  /\ pc = "send"
  /\ LET sent == send_alert(pending.smtp)
     IN /\ out' = out \o sent.out \o (IF sent.raised THEN <<"handler.error">> ELSE <<>>)
        /\ pc' = IF sent.raised THEN "update" ELSE "append"
  /\ UNCHANGED <<baseline, DASHBOARD_DATA, now, last, allAlerts, pending, view, main, observer, queue, gen, call, twin>>

\* lines 178-184
ConcAppend ==
  /\ pc = "append"
  /\ LET alert == Alert(now, pending.alert_type, pending.file_path, pending.details)
     IN /\ DASHBOARD_DATA' = [DASHBOARD_DATA EXCEPT !.alerts = Append(@, alert)]
        /\ allAlerts' = Append(allAlerts, alert)
  /\ out' = Append(out, "append")
  /\ pc' = "cap"
  /\ UNCHANGED <<baseline, now, last, pending, view, main, observer, queue, gen, call, twin>>

\* lines 185-186
ConcCap ==
  /\ pc = "cap"
  /\ DASHBOARD_DATA' = [DASHBOARD_DATA EXCEPT !.alerts = cap(@)]
  /\ pc' = "update"
  /\ UNCHANGED <<baseline, now, out, last, allAlerts, pending, view, main, observer, queue, gen, call, twin>>

\* line 144
ConcUpdate ==
  /\ pc = "update"
  /\ DASHBOARD_DATA' = update_dashboard_data(DASHBOARD_DATA, baseline, now)
  /\ out' = Append(out, "update_dashboard")
  /\ pc' = "idle"
  /\ pending' = <<>>
  /\ UNCHANGED <<baseline, now, last, allAlerts, view, main, observer, queue, gen, call, twin>>

\* dashboard(), lines 262-269: the template reads the counters of DASHBOARD_DATA
DashboardRead ==
  /\ view' = [alert_count |-> Len(DASHBOARD_DATA.alerts),
              file_count |-> DASHBOARD_DATA.file_count]
  /\ view' # view
  /\ UNCHANGED <<baseline, DASHBOARD_DATA, now, out, last, allAlerts, pc, pending, main, observer, queue, gen, call, twin>>

NextConc == ConcDeliver \/ ConcSend \/ ConcAppend \/ ConcCap \/ ConcUpdate \/ DashboardRead

SpecConc == Init /\ [][NextConc]_vars

(***************************************************************************)
(* Vocabulary of the properties.                                           *)
(***************************************************************************)
AlertHistory == DASHBOARD_DATA.alerts

\* the digest of a content hashed in one piece
Digest(content) == hexdigest(sha256_update(sha256_new, content))

\* the baseline key of the path of the last event
LastKey == CHOOSE k \in RelPaths : last.src_path = join(MONITOR_DIR, k)
LastTracked == LastKey \in DOMAIN baseline.files

\* the last event was of this kind and on a file
FileEvent(kind) == last.kind = kind /\ ~last.is_directory

\* this step is the handling of one event
EventStep == last'.n = last.n + 1

AppendsNone == allAlerts' = allAlerts /\ AlertHistory' = AlertHistory

AppendsOne(type) ==
  /\ Len(allAlerts') = Len(allAlerts) + 1
  /\ SubSeq(allAlerts', 1, Len(allAlerts)) = allAlerts
  /\ LET a == allAlerts'[Len(allAlerts')]
     IN /\ a.type = type
        /\ a.path = last'.src_path
        /\ AlertHistory' = last_n(Append(AlertHistory, a), MaxAlerts)

\* the last event appended exactly one alert, of this type, for its path
AppendedOne(type) ==
  /\ Len(allAlerts) = last.before + 1
  /\ allAlerts[Len(allAlerts)].type = type
  /\ allAlerts[Len(allAlerts)].path = last.src_path

\* the decision table of the classifier
TableVerdict(b, key, kind, file) ==
  CASE kind = "MODIFIED" /\ key \in DOMAIN b.files /\ file.fail = "none"
         /\ Digest(file.content) # b.files[key].hash -> FileModified
    [] kind = "CREATED" /\ key \notin DOMAIN b.files -> NewFileDetected
    [] kind = "DELETED" /\ key \in DOMAIN b.files -> FileDeleted
    [] OTHER -> "None"

LastVerdict ==
  IF last.is_directory THEN "None"
  ELSE TableVerdict(baseline, LastKey, last.kind, last.file)

Emitted(x) == \E i \in 1..Len(out) : out[i] = x

(***************************************************************************)
(* Properties of the classifier and of the alert pipeline, under Spec.     *)
(***************************************************************************)
\* C1: a Modified event for a baselined path appends no alert when the digest
\* of the file equals the baseline digest, and exactly one alert of type
\* File Modified for that path when it differs.
C1_ModifiedByDigest ==
  [][(EventStep /\ FileEvent("MODIFIED")' /\ LastTracked' /\ last'.file.fail = "none")
       => IF Digest(last'.file.content) = baseline.files[LastKey'].hash
          THEN AppendsNone
          ELSE AppendsOne(FileModified)]_vars

C1_Witness ==
  /\ FileEvent("MODIFIED") /\ LastTracked /\ last.file.fail = "none"
  /\ Digest(last.file.content) # baseline.files[LastKey].hash
  /\ AppendedOne(FileModified)

\* C2: for a path without a baseline entry, a Created event appends exactly one
\* alert of type New File Detected, and a Modified or Deleted event appends none.
C2_UntrackedPath ==
  [][(EventStep /\ ~last'.is_directory /\ ~LastTracked')
       => IF last'.kind = "CREATED" THEN AppendsOne(NewFileDetected) ELSE AppendsNone]_vars

C2_Witness ==
  /\ FileEvent("CREATED") /\ ~LastTracked /\ AppendedOne(NewFileDetected)
  /\ baseline.files # <<>>

\* C3: a Deleted event for a baselined path appends exactly one alert of type
\* File Deleted and leaves the baseline as it was, so a repeat Deleted event
\* is classified against the same baseline as the first.
C3_DeletedTracked ==
  [][(EventStep /\ FileEvent("DELETED")' /\ LastTracked')
       => AppendsOne(FileDeleted) /\ baseline' = baseline]_vars

\* two Deleted events for the same baselined path, one after the other
C3_Witness ==
  /\ FileEvent("DELETED") /\ LastTracked /\ last.n = 2 /\ last.before = 1
  /\ allAlerts[1].type = FileDeleted /\ allAlerts[1].path = last.src_path
  /\ AppendedOne(FileDeleted)

\* C4: a Created event for a baselined path appends no alert; when it follows a
\* Deleted event for the same path, the two events have appended exactly one
\* alert, of type File Deleted, whatever the re-created file holds.
C4_CreatedTracked ==
  [][(EventStep /\ FileEvent("CREATED")' /\ LastTracked')
       => /\ AppendsNone
          /\ (FileEvent("DELETED") /\ last.src_path = last'.src_path)
               => /\ Len(allAlerts') = last.before + 1
                  /\ allAlerts'[Len(allAlerts')].type = FileDeleted
                  /\ allAlerts'[Len(allAlerts')].path = last'.src_path]_vars

\* Deleted(p) then Created(p), p baselined: one alert in all
C4_Witness ==
  /\ FileEvent("CREATED") /\ LastTracked /\ last.n = 2 /\ last.before = 1
  /\ Len(allAlerts) = 1 /\ Len(AlertHistory) = 1
  /\ allAlerts[1].type = FileDeleted /\ allAlerts[1].path = last.src_path

\* C5: when open or read fails, calculate_file_hash returns None and logs the
\* failure itself; the Modified event for a baselined path then appends no
\* alert, sends nothing, and leaves the alert history and the baseline unchanged.
C5_Unreadable ==
  [][(EventStep /\ FileEvent("MODIFIED")' /\ LastTracked' /\ last'.file.fail # "none")
       => /\ calculate_file_hash(last'.file) = None
          /\ AppendsNone
          /\ baseline' = baseline
          /\ out' = <<"hash.error", "update_dashboard">>]_vars

C5_Witness ==
  /\ FileEvent("MODIFIED") /\ LastTracked /\ last.file.fail = "read"
  /\ Len(allAlerts) = last.before /\ Emitted("hash.error")

\* C6: an event with is_directory set, of any kind and for any path, appends no
\* alert, sends no notification and leaves the dashboard data untouched.
C6_DirectoryEvent ==
  [][(EventStep /\ last'.is_directory)
       => AppendsNone /\ out' = <<>> /\ DASHBOARD_DATA' = DASHBOARD_DATA]_vars

\* a directory event the decision table would alert on, had it been a file's
C6_Witness ==
  /\ last.is_directory /\ last.n > 0
  /\ TableVerdict(baseline, LastKey, last.kind, last.file) # "None"
  /\ Len(allAlerts) = last.before /\ out = <<>>

\* C8: when the notification fails, the handler of a violation still appends
\* the alert and no error escapes _trigger_alert.
C8_NotificationFailure ==
  [][(EventStep /\ LastVerdict' # "None" /\ last'.smtp = "refused")
       => /\ AppendsOne(LastVerdict')
          /\ Emitted("smtp")' /\ Emitted("email.error")'
          /\ ~Emitted("handler.error")']_vars

C8_Witness ==
  /\ LastVerdict # "None" /\ last.smtp = "refused"
  /\ AppendedOne(LastVerdict) /\ Emitted("email.error")

\* the lookup by category: Modified, Created, Deleted, else the fallback
details_by_category(alert_type) ==
  CASE alert_type = FileModified -> DetailsModified
    [] alert_type = NewFileDetected -> DetailsCreated
    [] alert_type = FileDeleted -> DetailsDeleted
    [] OTHER -> DetailsFallback

\* C10: the details of every alert are the text of its category: a File
\* Modified alert carries the modification text, a New File Detected alert the
\* file-added text, a File Deleted alert the removal text.
C10_DetailsByCategory ==
  \A i \in 1..Len(AlertHistory) :
    AlertHistory[i].details = details_by_category(AlertHistory[i].type)

(***************************************************************************)
(* The bounded history, under SpecCap.                                     *)
(***************************************************************************)
Min(a, b) == IF a < b THEN a ELSE b

\* C7: after any number n of alert triggers the history holds min(n, 50)
\* entries, and they are the most recent ones in the order they were appended;
\* so after the 51st the 1st is gone and the 2nd to 51st remain.
C7_HistoryIsLatest ==
  LET n == Len(allAlerts)
      k == Min(n, MaxAlerts)
  IN /\ Len(AlertHistory) = k
     /\ \A i \in 1..k : AlertHistory[i] = allAlerts[n - k + i]

\* 51 alerts appended, the first of them told apart from the rest by its time
C7_Witness ==
  /\ Len(allAlerts) = MaxAlerts + 1
  /\ Len(AlertHistory) = MaxAlerts
  /\ \A i \in 1..Len(AlertHistory) : AlertHistory[i] # allAlerts[1]
  /\ AlertHistory[1] = allAlerts[2]
  /\ AlertHistory[MaxAlerts] = allAlerts[MaxAlerts + 1]

(***************************************************************************)
(* The dashboard's reads, under SpecConc.                                  *)
(***************************************************************************)
\* C9: whatever the dashboard thread reads while the watcher thread triggers
\* alerts, it sees a history of at most 50 entries and a file count equal to
\* the number of baseline entries.
C9_ConsistentRead ==
  /\ view.alert_count <= MaxAlerts
  /\ view.file_count = Cardinality(DOMAIN baseline.files)

(***************************************************************************)
(* The order of the side effects, the frame of the baseline and of the     *)
(* status, and the count of alerts, under Spec.                            *)
(***************************************************************************)
IsStep(x) == x \in {"log.warning", "smtp", "append", "update_dashboard"}

\* C11: the handler of a violation logs the warning, then calls the
\* notification once, then appends the alert (cap applied), then refreshes the
\* dashboard data.
C11_SideEffectOrder ==
  [][(EventStep /\ LastVerdict' # "None")
       => /\ SelectSeq(out', IsStep) = <<"log.warning", "smtp", "append", "update_dashboard">>
          /\ AppendsOne(LastVerdict')
          /\ DASHBOARD_DATA'.last_update = now]_vars

C11_Witness ==
  /\ LastVerdict # "None"
  /\ out = <<"log.warning", "smtp", "email.error", "print", "append", "update_dashboard">>
  /\ AppendedOne(LastVerdict)

\* C12: no step of the engine changes the baseline: its paths and digests stay
\* as load_baseline returned them.
C12_BaselineNeverMutated == [][baseline' = baseline]_vars

\* two violations reported against the loaded baseline, one of them a deletion
C12_Witness ==
  /\ last.n = 2 /\ Len(allAlerts) = 2 /\ baseline = GeneratedBaseline
  /\ \E i \in 1..2 : allAlerts[i].type = FileDeleted

\* the status the dashboard shows
StatusSnapshot ==
  [filesTracked |-> DASHBOARD_DATA.file_count,
   lastBaselineCreatedAt |-> DASHBOARD_DATA.last_scan,
   alertCount |-> Len(DASHBOARD_DATA.alerts),
   lastUpdatedAt |-> DASHBOARD_DATA.last_update]

\* C16 as stated: an event that yields no violation leaves every field of the
\* status, lastUpdatedAt included, unchanged.
C16_NoWriteWithoutViolation ==
  [][(EventStep /\ LastVerdict' = "None") => StatusSnapshot' = StatusSnapshot]_vars

\* C16 amended: every event on a file, violating or not, recomputes the status
\* and sets lastUpdatedAt to the current time; without a violation the other
\* three fields keep their values; only a directory event leaves the whole
\* status unchanged.
C16_RefreshOnEveryFileEvent ==
  [][EventStep
       => IF last'.is_directory THEN StatusSnapshot' = StatusSnapshot
          ELSE /\ StatusSnapshot'.lastUpdatedAt = now
               /\ StatusSnapshot'.filesTracked = Cardinality(DOMAIN baseline.files)
               /\ LastVerdict' = "None"
                    => StatusSnapshot' = [StatusSnapshot EXCEPT !.lastUpdatedAt = now]]_vars

\* an event without a violation has moved lastUpdatedAt
C16_Witness ==
  /\ last.n = 1 /\ ~last.is_directory /\ LastVerdict = "None"
  /\ allAlerts = <<>>
  /\ StatusSnapshot.lastUpdatedAt = 1

\* C18: every event on a file appends exactly one alert when the decision
\* table calls it a violation and none otherwise, no other step appends one,
\* and the alerts already recorded stay as they are (the cap alone removes
\* them), so the alerts ever created are as many as the violations delivered.
C18_OneAlertPerViolation ==
  [][IF EventStep /\ ~last'.is_directory /\ LastVerdict' # "None"
     THEN AppendsOne(LastVerdict')
     ELSE AppendsNone]_vars

\* a violation followed by an event that is none
C18_Witness ==
  /\ last.n = 2 /\ ~last.is_directory /\ LastVerdict = "None"
  /\ Len(allAlerts) = 1 /\ last.before = 1 /\ AlertHistory = allAlerts

(***************************************************************************)
(* SpecErr: the observer thread takes the events of the watched directory  *)
(* from its queue and calls the handler of each (lines 290-294), over a     *)
(* baseline.json one record of which holds no 'hash'.                       *)
(***************************************************************************)
\* a baseline.json whose record of a.txt holds a size and no 'hash'
HashlessBaseline ==
  [metadata |-> [created |-> "2025-06-01T09:00:00", total_files |-> 2],
   files |-> (TrackedA :> [size |-> Len(ContentA)]) @@ (TrackedB :> FileRecord(ContentB))]

\* the paths the queued events are about
QueuedPaths == {join(MONITOR_DIR, TrackedA), join(MONITOR_DIR, Untracked)}

InitErr ==
  /\ baseline \in {load_baseline([ok |-> TRUE, json |-> HashlessBaseline]),
                   load_baseline([ok |-> TRUE, json |-> GeneratedBaseline])}
  /\ now = 0
  /\ DASHBOARD_DATA = update_dashboard_data(ModuleData, baseline, now)
  /\ out = <<>>
  /\ last = NoEvent
  /\ allAlerts = <<>>
  /\ pc = "idle"
  /\ pending = <<>>
  /\ view = [alert_count |-> 0, file_count |-> DASHBOARD_DATA.file_count]
  /\ main = Watching
  /\ observer = "running"
  /\ queue = <<>>
  /\ call = NoCall
  /\ twin = NoTwin
  /\ gen = NoGen

\* the watched directory changes: the observer queues the event
Emit ==
  /\ last.n + Len(queue) < MaxQueuedEvents
  /\ \E kind \in Kinds, src_path \in QueuedPaths :
       queue' = Append(queue, [kind |-> kind, src_path |-> src_path, is_directory |-> FALSE])
  /\ UNCHANGED <<baseline, DASHBOARD_DATA, now, out, last, allAlerts, pc, pending, view, main, observer, gen, call, twin>>

\* the observer thread calls the handler of the oldest queued event
Dispatch ==
  /\ queue # <<>>
  /\ \E smtp \in Smtp :
       \E file \in FilesFor(Head(queue).kind, Head(queue).is_directory) :
         Handle(Head(queue).kind, Head(queue).src_path, Head(queue).is_directory, file, smtp)
  /\ queue' = Tail(queue)
  /\ UNCHANGED <<main, observer>>

NextErr == Emit \/ Dispatch \/ Tick

SpecErr == InitErr /\ [][NextErr]_vars

\* the record of the path of the last event holds no 'hash'
LastHashless == LastTracked /\ "hash" \notin DOMAIN baseline.files[LastKey]

\* the verdict of the table where it has one: the comparison of a MODIFIED
\* event with a record without 'hash' has none
ContainedVerdict ==
  IF FileEvent("MODIFIED") /\ LastHashless THEN "None" ELSE LastVerdict

\* C14: whatever fails inside a handler call (the hash, the lookup of the
\* baseline digest, the notification), the call returns to the observer
\* thread, and every event, the one after a failed call included, is
\* classified by the table, alerted once when it is a violation, and followed
\* by the refresh of the status.
C14_ErrorsContained ==
  [][EventStep
       => /\ pc' = "idle"
          /\ IF ContainedVerdict' # "None" THEN AppendsOne(ContainedVerdict')
             ELSE AppendsNone
          /\ DASHBOARD_DATA'.last_update = now
          /\ (FileEvent("MODIFIED") /\ LastHashless /\ last.file.fail = "none")'
               => Emitted("handler.error")']_vars

\* the lookup of the digest failed inside the second call, after a call that
\* alerted, and the observer thread is back with a third event waiting
C14_Witness ==
  /\ last.n = 2 /\ pc = "idle" /\ queue # <<>>
  /\ FileEvent("MODIFIED") /\ LastHashless /\ Emitted("handler.error")
  /\ Len(allAlerts) = 1

(***************************************************************************)
(* SpecHang: the same observer thread when the SMTP server accepts the     *)
(* connection and never answers: smtplib.SMTP is built without a timeout    *)
(* (lines 84-87), so send_alert does not return.                            *)
(***************************************************************************)
\* _trigger_alert entered for the oldest queued event, send_alert never returns
SendHangs ==
  /\ queue # <<>>
  /\ pc = "idle"
  /\ \E file \in FilesFor(Head(queue).kind, Head(queue).is_directory) :
       /\ verdict(baseline, relpath(Head(queue).src_path, MONITOR_DIR), Head(queue).kind,
                  IF Head(queue).kind = "MODIFIED" THEN calculate_file_hash(file) ELSE None)
            \in AlertTypes
       /\ last' = [n |-> last.n + 1, kind |-> Head(queue).kind,
                   src_path |-> Head(queue).src_path, is_directory |-> FALSE,
                   file |-> file, smtp |-> "hang", before |-> Len(allAlerts)]
  /\ out' = <<"log.warning", "smtp">>
  /\ pc' = "blocked"
  /\ queue' = Tail(queue)
  /\ UNCHANGED <<baseline, DASHBOARD_DATA, now, allAlerts, pending, view, main, observer, gen, call, twin>>

NextHang == Emit \/ Dispatch \/ SendHangs

SpecHang == Init /\ [][NextHang]_vars

\* the observer thread is between two handler calls: with an event queued,
\* this is what Dispatch waits for
ObserverFree == pc = "idle"

\* C17: an event waiting in the queue of the observer can always be taken and
\* classified, also after a notification send that never returns.
C17_DeliveryNeverBlocked == queue # <<>> => ObserverFree

(***************************************************************************)
(* SpecFiles: monitor_files.py, the monitor of SafeBank_Data.  Its          *)
(* load_baseline fills the counters of DASHBOARD_DATA (lines 186-196) and   *)
(* its handlers never refresh them (lines 123-133).                         *)
(***************************************************************************)
\* lines 18-22
MfModuleData == [alerts |-> <<>>, last_scan |-> "None", file_count |-> 0]

\* a baseline.json whose metadata.total_files is not the number of its records
MiscountedBaseline == [GeneratedBaseline EXCEPT !.metadata.total_files = 5]

MfBaselineFiles == BaselineFiles \cup {[ok |-> TRUE, json |-> MiscountedBaseline]}

\* lines 190-191: what load_baseline leaves in DASHBOARD_DATA
mf_load_baseline_data(D, f) ==
  IF f.ok
  THEN [D EXCEPT !.file_count = get(get(f.json, "metadata", <<>>), "total_files", 0),
                 !.last_scan = get(get(f.json, "metadata", <<>>), "created", "Never")]
  ELSE D

MfDetailsModified == "File content changed"
MfDetailsCreated == "New file appeared"
MfDetailsDeleted == "Critical file removed"
MfDetailsFallback == "Unknown change"

\* lines 157-161
mf_details_for(alert_type) ==
  LET words == split(Chars(alert_type))
      key == words[Len(words)]
  IN CASE key = Chars("MODIFIED") -> MfDetailsModified
       [] key = Chars("CREATED") -> MfDetailsCreated
       [] key = Chars("DELETED") -> MfDetailsDeleted
       [] OTHER -> MfDetailsFallback

\* lines 156-175 are _trigger_alert of monitor.py with the texts of lines 157-161
mf_alert(a) == [a EXCEPT !.details = mf_details_for(a.type)]

\* the handler of monitor_files.py without its on_deleted
mf_on_event_no_deleted(D, b, e, file, smtp, t) ==
  LET own_texts(r) ==
        [r EXCEPT !.appended = [i \in DOMAIN @ |-> mf_alert(@[i])],
                  !.data.alerts = [i \in DOMAIN @ |->
                                     IF i > Len(@) - Len(r.appended) THEN mf_alert(@[i])
                                     ELSE @[i]]]
  IN IF e.is_directory \/ e.kind = "DELETED" THEN Quiet(D, b, <<>>)
     ELSE own_texts(process_event(D, b, e.src_path, e.kind, file, smtp, t))

\* lines 123-133 and 135-154: _process_event, the same statements as in
\* monitor.py, and no call of _update_dashboard_data after it
mf_on_event(D, b, e, file, smtp, t) ==
  LET own_texts(r) ==
        [r EXCEPT !.appended = [i \in DOMAIN @ |-> mf_alert(@[i])],
                  !.data.alerts = [i \in DOMAIN @ |->
                                     IF i > Len(@) - Len(r.appended) THEN mf_alert(@[i])
                                     ELSE @[i]]]
  IN IF e.is_directory THEN Quiet(D, b, <<>>)
     ELSE own_texts(process_event(D, b, e.src_path, e.kind, file, smtp, t))

InitFiles ==
  /\ \E f \in MfBaselineFiles :
       /\ baseline = load_baseline(f)
       /\ DASHBOARD_DATA = mf_load_baseline_data(MfModuleData, f)
  /\ now = 0
  /\ out = <<>>
  /\ last = NoEvent
  /\ allAlerts = <<>>
  /\ pc = "idle"
  /\ pending = <<>>
  /\ view = [alert_count |-> 0, file_count |-> DASHBOARD_DATA.file_count]
  /\ main = Watching
  /\ observer = "running"
  /\ queue = <<>>
  /\ call = NoCall
  /\ twin = NoTwin
  /\ gen = NoGen

\* the observer thread of monitor_files.py calls the handler of one event
MfHandle(kind, src_path, is_directory, file, smtp) ==
  LET returned(r) ==
        /\ DASHBOARD_DATA' = r.data
        /\ baseline' = r.baseline
        /\ out' = r.out
        /\ allAlerts' = allAlerts \o r.appended
        /\ pc' = IF r.raised THEN "dead" ELSE pc
  IN /\ pc = "idle"
     /\ returned(mf_on_event(DASHBOARD_DATA, baseline,
                             [kind |-> kind, src_path |-> src_path,
                              is_directory |-> is_directory],
                             file, smtp, now))
     /\ last' = [n |-> last.n + 1, kind |-> kind, src_path |-> src_path,
                 is_directory |-> is_directory, file |-> file, smtp |-> smtp,
                 before |-> Len(allAlerts)]
     /\ UNCHANGED <<now, pending, view, main, observer, queue, gen, call, twin>>

OnFilesEvent ==
  /\ last.n < MaxEvents
  /\ \E kind \in Kinds, src_path \in SrcPaths, is_directory \in BOOLEAN, smtp \in Smtp :
       \E file \in FilesFor(kind, is_directory) :
         MfHandle(kind, src_path, is_directory, file, smtp)

NextFiles == OnFilesEvent \/ Tick

SpecFiles == InitFiles /\ [][NextFiles]_vars

\* C15: once an event has been processed, the status shows as filesTracked the
\* number of records of the baseline mapping and as alertCount the length of
\* the alert history, whatever metadata.total_files says.
C15_StatusCounts ==
  last.n >= 1
    => /\ DASHBOARD_DATA.file_count = Cardinality(DOMAIN baseline.files)
       /\ Len(DASHBOARD_DATA.alerts) = Len(last_n(allAlerts, MaxAlerts))

(***************************************************************************)
(* SpecBaseline: create_baseline.py walks a directory tree and writes the  *)
(* baseline (lines 23-61).  gen holds the files the walk has still to      *)
(* yield, the baseline built so far, the files that failed, and whether    *)
(* the baseline has been written.                                          *)
(***************************************************************************)
TreeNames == <<"a.txt", "b.txt", "c.txt", "d.txt", "e.txt">>

\* the relative path of the i-th file of the tree: in the root or in conf/
TreePath(i) == IF i % 2 = 1 THEN <<TreeNames[i]>> ELSE <<"conf", TreeNames[i]>>

\* the walk keying every file by its name alone
RECURSIVE walk_names(_)
walk_names(S) ==
  IF S = {} THEN <<>>
  ELSE LET i == CHOOSE x \in S : \A y \in S : x <= y
       IN <<<<basename(join(MONITOR_DIR, TreePath(i)))>>>> \o walk_names(S \ {i})

\* what os.walk yields for a tree holding the files of the set S, lines 34-37
RECURSIVE walk(_)
walk(S) ==
  IF S = {} THEN <<>>
  ELSE LET i == CHOOSE x \in S : \A y \in S : x <= y
       IN <<relpath(join(MONITOR_DIR, TreePath(i)), MONITOR_DIR)>> \o walk(S \ {i})

\* lines 25-32
NewBaseline(t) == [metadata |-> [created |-> t, total_files |-> 0], files |-> <<>>]

\* lines 39-54 counting the file as soon as it is hashed
loop_body_counts_first(g, relative_path, file, stat_ok) ==
  LET hashed(file_hash) ==
        IF file_hash = None
        THEN [g EXCEPT !.failed = @ \cup {[path |-> relative_path, at |-> "hash"]}]
        ELSE IF ~stat_ok
        THEN [g EXCEPT !.failed = @ \cup {[path |-> relative_path, at |-> "stat"]},
                       !.baseline.metadata.total_files = @ + 1]
        ELSE [g EXCEPT !.baseline.files =
                         (relative_path :> [hash |-> file_hash, size |-> Len(file.content)]) @@ @,
                       !.baseline.metadata.total_files = @ + 1]
  IN hashed(calculate_file_hash(file))

\* lines 39-54 recording a file that could not be hashed, with no digest
loop_body_records_unhashed(g, relative_path, file, stat_ok) ==
  LET hashed(file_hash) ==
        IF ~stat_ok
        THEN [g EXCEPT !.failed = @ \cup {[path |-> relative_path, at |-> "stat"]}]
        ELSE [g EXCEPT !.failed = IF file_hash = None
                                  THEN @ \cup {[path |-> relative_path, at |-> "hash"]}
                                  ELSE @,
                       !.baseline.files =
                         (relative_path :> [hash |-> file_hash, size |-> Len(file.content)]) @@ @,
                       !.baseline.metadata.total_files = @ + 1]
  IN hashed(calculate_file_hash(file))

\* lines 39-54: one file of the walk
loop_body(g, relative_path, file, stat_ok) ==
  LET hashed(file_hash) ==
        IF file_hash = None
        THEN [g EXCEPT !.failed = @ \cup {[path |-> relative_path, at |-> "hash"]}]
        ELSE IF ~stat_ok
        THEN [g EXCEPT !.failed = @ \cup {[path |-> relative_path, at |-> "stat"]}]
        ELSE [g EXCEPT !.baseline.files =
                         (relative_path :> [hash |-> file_hash, size |-> Len(file.content)]) @@ @,
                       !.baseline.metadata.total_files = @ + 1]
  IN hashed(calculate_file_hash(file))

\* create_baseline has been called on some tree; the monitor is not running
InitBaseline ==
  /\ \E S \in SUBSET (1..MaxTreeFiles) :
       gen = [tree |-> S, todo |-> walk(S), baseline |-> NewBaseline(0), failed |-> {},
              done |-> FALSE]
  /\ baseline = EmptyBaseline
  /\ now = 0
  /\ DASHBOARD_DATA = ModuleData
  /\ out = <<>>
  /\ last = NoEvent
  /\ allAlerts = <<>>
  /\ pc = "idle"
  /\ pending = <<>>
  /\ view = [alert_count |-> 0, file_count |-> 0]
  /\ main = Watching
  /\ observer = "running"
  /\ queue = <<>>
  /\ call = NoCall
  /\ twin = NoTwin

\* one turn of the loop of lines 35-54
GenFile ==
  /\ gen.todo # <<>>
  /\ \E file \in Files, stat_ok \in BOOLEAN :
       gen' = [loop_body(gen, Head(gen.todo), file, stat_ok) EXCEPT !.todo = Tail(@)]
  /\ UNCHANGED <<baseline, DASHBOARD_DATA, now, out, last, allAlerts, pc, pending, view, main, observer, queue, call, twin>>

\* lines 57-61: the walk is over, the baseline is written
GenSave ==
  /\ gen.todo = <<>>
  /\ ~gen.done
  /\ gen' = [gen EXCEPT !.done = TRUE]
  /\ UNCHANGED <<baseline, DASHBOARD_DATA, now, out, last, allAlerts, pc, pending, view, main, observer, queue, call, twin>>

NextBaseline == GenFile \/ GenSave

SpecBaseline == InitBaseline /\ [][NextBaseline]_vars

\* C20: the baseline create_baseline writes has metadata.total_files equal to
\* the number of records under 'files', and holds no record of a file whose
\* hashing or stat failed.
C20_TotalFilesIsEntryCount ==
  gen.done
    => /\ gen.baseline.metadata.total_files = Cardinality(DOMAIN gen.baseline.files)
       /\ \A f \in gen.failed : f.path \notin DOMAIN gen.baseline.files

\* a finished run over three files: one hashed and recorded, one unreadable,
\* one whose stat failed
C20_Witness ==
  /\ gen.done
  /\ Cardinality(DOMAIN gen.baseline.files) = 1
  /\ \E f, g \in gen.failed : f.at = "hash" /\ g.at = "stat"

(***************************************************************************)
(* SpecLife: start_monitoring from its first line to its return (lines     *)
(* 284-325).  main is the main thread: where it is, which baseline file it *)
(* found, and how it left the try block; observer is the watcher thread.   *)
(***************************************************************************)
\* a baseline.json that is a JSON object without 'files'
NoFilesBaseline == [metadata |-> [created |-> "2025-06-01T09:00:00", total_files |-> 0]]

\* what open/json.load find at CONFIG['BASELINE_FILE'], and what kind of file it is
LifeBaselineFiles ==
  {[ok |-> TRUE, json |-> GeneratedBaseline, kind |-> "generated"],
   [ok |-> FALSE, json |-> EmptyBaseline, kind |-> "missing"],
   [ok |-> FALSE, json |-> EmptyBaseline, kind |-> "invalid_json"],
   [ok |-> TRUE, json |-> NoFilesBaseline, kind |-> "no_files"]}

\* FileChangeHandler.__init__, lines 102-108: the subscript ['files'] of line
\* 112 raises KeyError on a baseline without that key
handler_init(D, b, t) ==
  IF "files" \in DOMAIN b
  THEN [raised |-> FALSE, data |-> update_dashboard_data(D, b, t)]
  ELSE [raised |-> TRUE, data |-> D]

\* observer.stop() leaving the observer as it is
observer_stop_noop(o) == o

\* observer.stop(): the watcher thread is told to end
observer_stop(o) == IF o = "running" THEN "stopping" ELSE o

\* start_monitoring has no baseline before line 287
NotLoaded == [loaded |-> FALSE]

InitLife ==
  /\ main = [pc |-> "load", found |-> "none", via |-> "none"]
  /\ observer = "new"
  /\ baseline = NotLoaded
  /\ now = 0
  /\ DASHBOARD_DATA = ModuleData
  /\ out = <<>>
  /\ last = NoEvent
  /\ allAlerts = <<>>
  /\ pc = "idle"
  /\ pending = <<>>
  /\ view = [alert_count |-> 0, file_count |-> 0]
  /\ queue = <<>>
  /\ call = NoCall
  /\ twin = NoTwin
  /\ gen = NoGen

\* line 287
LoadBaseline ==
  /\ main.pc = "load"
  /\ \E f \in LifeBaselineFiles :
       /\ baseline' = load_baseline(f)
       /\ main' = [main EXCEPT !.pc = "construct", !.found = f.kind]
  /\ UNCHANGED <<DASHBOARD_DATA, now, out, last, allAlerts, pc, pending, view, observer, queue, gen, call, twin>>

\* line 289, outside the try block: an exception ends start_monitoring
Construct ==
  /\ main.pc = "construct"
  /\ LET built(r) ==
           /\ DASHBOARD_DATA' = r.data
           /\ main' = [main EXCEPT !.pc = IF r.raised THEN "crashed" ELSE "schedule"]
     IN built(handler_init(DASHBOARD_DATA, baseline, now))
  /\ UNCHANGED <<baseline, now, out, last, allAlerts, pc, pending, view, observer, queue, gen, call, twin>>

\* lines 293-306: the observer thread and the dashboard thread are started
StartObserver ==
  /\ main.pc = "schedule"
  /\ observer' = "running"
  /\ main' = [main EXCEPT !.pc = "email"]
  /\ UNCHANGED <<baseline, DASHBOARD_DATA, now, out, last, allAlerts, pc, pending, view, queue, gen, call, twin>>

\* lines 293 and 322-323: observer.schedule raises (the directory cannot be
\* watched), the error is logged
ScheduleFails ==
  /\ main.pc = "schedule"
  /\ main' = [main EXCEPT !.pc = "finally", !.via = "exception"]
  /\ out' = <<"log.error">>
  /\ UNCHANGED <<baseline, DASHBOARD_DATA, now, last, allAlerts, pc, pending, view, observer, queue, gen, call, twin>>

\* lines 296-306 and 322-323: starting the dashboard thread raises (no thread
\* can be started), the error is logged; the observer thread is running
DashboardFails ==
  /\ main.pc = "email"
  /\ main' = [main EXCEPT !.pc = "finally", !.via = "exception"]
  /\ out' = <<"log.error">>
  /\ UNCHANGED <<baseline, DASHBOARD_DATA, now, last, allAlerts, pc, pending, view, observer, queue, gen, call, twin>>

StartupType == "FIM System Startup"
StartupDetails == "Monitoring system initialized successfully"

\* a startup notification that is also recorded as an alert
startup_email_recorded(D, smtp, t) ==
  [data |-> [D EXCEPT !.alerts = Append(@, Alert(t, StartupType, MONITOR_DIR, StartupDetails))],
   out |-> send_alert(smtp).out]

\* lines 309-315: send_alert("FIM System Startup", MONITOR_DIR, ...); its
\* return value is dropped and nothing else is written
startup_email(D, smtp, t) == [data |-> D, out |-> send_alert(smtp).out]

\* lines 309-315: the start-up mail
StartupEmail ==
  /\ main.pc = "email"
  /\ \E smtp \in Smtp :
       LET sent(r) == DASHBOARD_DATA' = r.data /\ out' = r.out
       IN sent(startup_email(DASHBOARD_DATA, smtp, now))
  /\ main' = [main EXCEPT !.pc = "loop"]
  /\ UNCHANGED <<baseline, now, last, allAlerts, pc, pending, view, observer, queue, gen, call, twin>>

\* the running observer thread calls the handler of one event
LifeEvent ==
  /\ observer = "running"
  /\ last.n < MaxLifeEvents
  /\ \E kind \in Kinds, src_path \in SrcPaths, smtp \in Smtp :
       \E file \in FilesFor(kind, FALSE) : Deliver(kind, src_path, FALSE, file, smtp)

\* KeyboardInterrupt reaches the main thread inside the try block, after the
\* observer was started (lines 309-318)
Interrupt ==
  /\ main.pc \in {"email", "loop"}
  /\ main' = [main EXCEPT !.pc = "except", !.via = "interrupt"]
  /\ UNCHANGED <<baseline, DASHBOARD_DATA, now, out, last, allAlerts, pc, pending, view, observer, queue, gen, call, twin>>

\* lines 319-321
StopObserver ==
  /\ main.pc = "except"
  /\ observer' = observer_stop(observer)
  /\ main' = [main EXCEPT !.pc = "finally"]
  /\ UNCHANGED <<baseline, DASHBOARD_DATA, now, out, last, allAlerts, pc, pending, view, queue, gen, call, twin>>

\* the observer thread, told to end and outside a handler call, ends
ObserverExit ==
  /\ observer = "stopping"
  /\ pc = "idle"
  /\ observer' = "stopped"
  /\ UNCHANGED <<baseline, DASHBOARD_DATA, now, out, last, allAlerts, pc, pending, view, main, queue, gen, call, twin>>

\* lines 324-325: join returns once the observer thread has ended
Join ==
  /\ main.pc = "finally"
  /\ observer = "stopped"
  /\ main' = [main EXCEPT !.pc = "done"]
  /\ UNCHANGED <<baseline, DASHBOARD_DATA, now, out, last, allAlerts, pc, pending, view, observer, queue, gen, call, twin>>

\* lines 324-325: join of a thread that was never started raises RuntimeError
JoinUnstarted ==
  /\ main.pc = "finally"
  /\ observer = "new"
  /\ main' = [main EXCEPT !.pc = "crashed"]
  /\ UNCHANGED <<baseline, DASHBOARD_DATA, now, out, last, allAlerts, pc, pending, view, observer, queue, gen, call, twin>>

NextLife ==
  \/ LoadBaseline \/ Construct \/ StartObserver \/ ScheduleFails \/ StartupEmail
  \/ LifeEvent \/ Tick \/ Interrupt \/ StopObserver \/ ObserverExit \/ Join
  \/ JoinUnstarted \/ DashboardFails

SpecLife == InitLife /\ [][NextLife]_vars

\* the threads are scheduled: the main thread goes on through its except and
\* finally clauses, the observer thread ends once told to
SpecLifeFair ==
  SpecLife /\ WF_vars(StopObserver) /\ WF_vars(ObserverExit) /\ WF_vars(Join)

\* the baseline file was missing or corrupt
CorruptFound == main.found \in {"missing", "invalid_json", "no_files"}

\* C13: with a missing or corrupt baseline file the engine does not fail to
\* start, it runs on the empty store, and a Created event then appends a
\* New File Detected alert for its path.
C13_ColdStart ==
  CorruptFound
    => /\ main.pc # "crashed"
       /\ main.pc \in {"email", "loop", "except", "finally", "done"}
            => baseline = EmptyBaseline
       /\ (last.n = 1 /\ FileEvent("CREATED")) => AppendedOne(NewFileDetected)

TreeSrcPath(i) == join(MONITOR_DIR, TreePath(i))

InitPipeline ==
  /\ \E S \in SUBSET (1..MaxTreeFiles) :
       gen = [tree |-> S, todo |-> walk(S), baseline |-> NewBaseline(0), failed |-> {},
              done |-> FALSE]
  /\ main = [pc |-> "load", found |-> "none", via |-> "none"]
  /\ observer = "new"
  /\ baseline = NotLoaded
  /\ now = 0
  /\ DASHBOARD_DATA = ModuleData
  /\ out = <<>>
  /\ last = NoEvent
  /\ allAlerts = <<>>
  /\ pc = "idle"
  /\ pending = <<>>
  /\ view = [alert_count |-> 0, file_count |-> 0]
  /\ queue = <<>>
  /\ call = NoCall
  /\ twin = NoTwin

\* lines 287-294 once the baseline is written: it is loaded, the handler is
\* constructed, the observer started
StartOnGenerated ==
  /\ gen.done
  /\ main.pc = "load"
  /\ baseline' = load_baseline([ok |-> TRUE, json |-> gen.baseline])
  /\ DASHBOARD_DATA' = handler_init(DASHBOARD_DATA, baseline', now).data
  /\ observer' = "running"
  /\ main' = [main EXCEPT !.pc = "loop", !.found = "generated"]
  /\ UNCHANGED <<now, out, last, allAlerts, pc, pending, view, queue, gen, call, twin>>

\* the observer thread calls the handler for a change of one file of the tree
PipelineEvent ==
  /\ observer = "running"
  /\ last.n < MaxPipelineEvents
  /\ \E kind \in Kinds, i \in 1..MaxTreeFiles :
       \E file \in FilesFor(kind, FALSE) : Deliver(kind, TreeSrcPath(i), FALSE, file, "ok")

NextPipeline == GenFile \/ GenSave \/ StartOnGenerated \/ PipelineEvent

SpecPipeline == InitPipeline /\ [][NextPipeline]_vars

\* the file of the tree the last event is about
LastTreeFile == CHOOSE i \in 1..MaxTreeFiles : TreeSrcPath(i) = last.src_path

\* the key under which the walk stores the i-th file
StoredKey(i) == walk({i})[1]

\* the key the classifier looks the i-th file up by
LookupKey(i) == relpath(TreeSrcPath(i), MONITOR_DIR)

\* the generation failed on the i-th file at this call
FailedAt(i, where) == [path |-> StoredKey(i), at |-> where] \in gen.failed

\* the generation met the i-th file and recorded it
Recorded(i) == i \in gen.tree /\ ~FailedAt(i, "hash") /\ ~FailedAt(i, "stat")

\* C21: a file that could not be hashed when the baseline was generated has no
\* record in it, and a Created event for its path, classified against that
\* baseline, appends one New File Detected alert.
C21_UnhashedFileIsCreated ==
  main.pc = "loop"
    => \A i \in gen.tree :
         FailedAt(i, "hash")
           => /\ LookupKey(i) \notin DOMAIN baseline.files
              /\ (last.n >= 1 /\ FileEvent("CREATED") /\ LastTreeFile = i)
                   => AppendedOne(NewFileDetected)

C21_Witness ==
  /\ main.pc = "loop" /\ last.n = 1 /\ FileEvent("CREATED")
  /\ FailedAt(LastTreeFile, "hash")
  /\ AppendedOne(NewFileDetected)
  /\ Cardinality(DOMAIN baseline.files) >= 1

\* C22: the key the classifier derives from the event path of a file is the
\* key under which the generation stored it, so every recorded file is found in
\* the baseline and a Modified event with another content is alerted.
C22_SameKeys ==
  main.pc = "loop"
    => \A i \in gen.tree :
         Recorded(i)
           => /\ LookupKey(i) = StoredKey(i)
              /\ LookupKey(i) \in DOMAIN baseline.files
              /\ (/\ last.n >= 1 /\ FileEvent("MODIFIED") /\ LastTreeFile = i
                  /\ last.file.fail = "none"
                  /\ Digest(last.file.content) # baseline.files[StoredKey(i)].hash)
                   => AppendedOne(FileModified)

\* a changed file below conf/ has been found in the baseline and alerted
C22_Witness ==
  /\ main.pc = "loop" /\ last.n = 1 /\ FileEvent("MODIFIED")
  /\ Len(LookupKey(LastTreeFile)) = 2
  /\ Recorded(LastTreeFile)
  /\ AppendedOne(FileModified)

(***************************************************************************)
(* SpecRace: the files of the watched directory go on changing while their *)
(* events wait in the queue of the observer.  Every queued event carries   *)
(* the file as the change left it; the handler opens the file as it is on  *)
(* disk when the event is taken from the queue (lines 116-129, 150).        *)
(***************************************************************************)
\* the file at src_path as a change of this kind leaves it
FilesAfter(kind) ==
  IF kind = "DELETED" THEN {NoFile}
  ELSE {ReadableFile(ContentA), ReadableFile(ContentB)}

\* a file of the watched directory changes: the observer queues the event
Change ==
  /\ last.n + Len(queue) < MaxQueuedEvents
  /\ \E kind \in Kinds, src_path \in QueuedPaths :
       \E file \in FilesAfter(kind) :
         queue' = Append(queue, [kind |-> kind, src_path |-> src_path,
                                 is_directory |-> FALSE, file |-> file])
  /\ UNCHANGED <<baseline, DASHBOARD_DATA, now, out, last, allAlerts, pc, pending, view, main, observer, gen, call, twin>>

\* the file at src_path now: as the latest change of that path left it
RECURSIVE OnDisk(_, _)
OnDisk(q, src_path) ==
  IF q[Len(q)].src_path = src_path THEN q[Len(q)].file
  ELSE OnDisk(SubSeq(q, 1, Len(q) - 1), src_path)

\* the observer thread calls the handler of the oldest queued event, which
\* reads the file as it is by then
DispatchLate ==
  /\ queue # <<>>
  /\ \E smtp \in Smtp :
       Handle(Head(queue).kind, Head(queue).src_path, FALSE,
              IF Head(queue).kind = "MODIFIED" THEN OnDisk(queue, Head(queue).src_path)
              ELSE NoFile,
              smtp)
  /\ queue' = Tail(queue)
  /\ UNCHANGED <<main, observer>>

NextRace == Change \/ DispatchLate

SpecRace == Init /\ [][NextRace]_vars

\* the verdict of the decision table for the oldest queued event and the file
\* as that event left it
HeadVerdict ==
  TableVerdict(baseline, relpath(Head(queue).src_path, MONITOR_DIR), Head(queue).kind,
               Head(queue).file)

\* C23: the events are handled in the order of their delivery, each appends
\* its alert behind the alerts of the events before it, and the verdict of an
\* event is the one of the decision table for the file as it was when the
\* event occurred.
C23_VerdictAtEventTime ==
  [][EventStep
       => /\ last'.kind = Head(queue).kind /\ last'.src_path = Head(queue).src_path
          /\ IF HeadVerdict # "None" THEN AppendsOne(HeadVerdict) ELSE AppendsNone]_vars

(***************************************************************************)
(* SpecSend: EmailAlertSystem.send_alert called on its own, with every     *)
(* alert the program sends and every stage at which the transport fails.   *)
(***************************************************************************)
\* the SMTP conversation of lines 84-87 completes, or raises at one stage
SmtpOutcomes == {"ok", "connect", "starttls", "login", "send_message"}

\* line 63: f"FIM Security Alert: {alert_type}"
Subject(alert_type) == [prefix |-> "FIM Security Alert: ", alert_type |-> alert_type]

\* what send_alert leaves behind: the log records, the lines printed and the
\* return value
Sent(r, log, printed) ==
  [value |-> r.value, raised |-> r.raised, out |-> r.out, log |-> log, printed |-> printed]

\* send_alert with an except clause that logs and does not print
send_alert_message_silent(alert_type, file_path, details, smtp) ==
  IF smtp = "ok"
  THEN Sent(send_alert(smtp),
            <<[level |-> "INFO", text |-> "Email alert sent: ", subject |-> Subject(alert_type)]>>,
            <<>>)
  ELSE Sent(send_alert(smtp), <<[level |-> "ERROR", text |-> "Email failed: ", error |-> smtp]>>,
            <<>>)

\* monitor.py, EmailAlertSystem.send_alert, lines 61-99
send_alert_message(alert_type, file_path, details, smtp) ==
  IF smtp = "ok"
  THEN Sent(send_alert(smtp),
            <<[level |-> "INFO", text |-> "Email alert sent: ", subject |-> Subject(alert_type)]>>,
            <<>>)
  ELSE Sent(send_alert(smtp), <<[level |-> "ERROR", text |-> "Email failed: ", error |-> smtp]>>,
            <<[prefix |-> "SECURITY ALERT: ", subject |-> Subject(alert_type),
               file_path |-> file_path, details |-> details]>>)

\* monitor_files.py, line 62: f"FIM Alert: {alert_type}"
MfSubject(alert_type) == [prefix |-> "FIM Alert: ", alert_type |-> alert_type]

\* monitor_files.py, EmailAlertSystem.send_alert, lines 60-98
mf_send_alert_message(alert_type, file_path, details, smtp) ==
  IF smtp = "ok"
  THEN Sent(send_alert(smtp),
            <<[level |-> "INFO", text |-> "Email alert sent: ", subject |-> MfSubject(alert_type)]>>,
            <<>>)
  ELSE Sent(send_alert(smtp), <<[level |-> "ERROR", text |-> "Email failed: ", error |-> smtp]>>,
            <<[prefix |-> "ALERT: ", subject |-> MfSubject(alert_type),
               file_path |-> file_path, details |-> details]>>)

SentTypes == AlertTypes \cup {StartupType}
SentPaths == SrcPaths \cup {MONITOR_DIR}
SentDetails ==
  {DetailsModified, DetailsCreated, DetailsDeleted, DetailsFallback, StartupDetails,
   MfDetailsModified, MfDetailsCreated, MfDetailsDeleted, MfDetailsFallback}

\* one call of send_alert of either module
SendAlert ==
  /\ call = NoCall
  /\ \E module \in {"monitor", "monitor_files"}, alert_type \in SentTypes,
        file_path \in SentPaths, details \in SentDetails, smtp \in SmtpOutcomes :
       call' = [fn |-> "send_alert", module |-> module, alert_type |-> alert_type,
                file_path |-> file_path, details |-> details, smtp |-> smtp,
                result |-> IF module = "monitor"
                           THEN send_alert_message(alert_type, file_path, details, smtp)
                           ELSE mf_send_alert_message(alert_type, file_path, details, smtp)]
  /\ UNCHANGED <<baseline, DASHBOARD_DATA, now, out, last, allAlerts, pc, pending, view, main, observer, queue, gen, twin>>

NextSend == SendAlert

SpecSend == Init /\ [][NextSend]_vars

\* the last call was a send_alert whose delivery failed
DeliveryFailed == call.fn = "send_alert" /\ call.smtp # "ok"

\* C24: every send_alert whose delivery fails returns False without raising,
\* logs one error record and prints one message that carries the type, the
\* path and the details of the alert.
C24_FailurePrintsAlert ==
  DeliveryFailed
    => /\ ~call.result.raised /\ call.result.value = FALSE
       /\ \E i \in DOMAIN call.result.log : call.result.log[i].level = "ERROR"
       /\ Len(call.result.printed) = 1
       /\ call.result.printed[1].subject.alert_type = call.alert_type
       /\ call.result.printed[1].file_path = call.file_path
       /\ call.result.printed[1].details = call.details

C24_Witness ==
  /\ DeliveryFailed
  /\ call.module = "monitor_files"
  /\ call.alert_type = FileDeleted
  /\ call.smtp = "login"
  /\ call.result.printed # <<>>

(***************************************************************************)
(* SpecHash: calculate_file_hash called on its own, on every content up to *)
(* MaxHashLen bytes, beside a hasher fed the same content in other pieces. *)
(***************************************************************************)
Bytes == {0, 1}

Contents == UNION {[1..n -> Bytes] : n \in 0..MaxHashLen}

\* the pieces of content between the cut points of cuts, in order
RECURSIVE Pieces(_, _, _)
Pieces(content, cuts, from) ==
  IF from > Len(content) THEN <<>>
  ELSE LET ends == {c \in cuts : c >= from} \cup {Len(content)}
           to == CHOOSE c \in ends : \A d \in ends : c <= d
       IN <<SubSeq(content, from, to)>> \o Pieces(content, cuts, to + 1)

\* h = hashlib.sha256(); for piece in pieces: h.update(piece)
RECURSIVE feed(_, _)
feed(acc, pieces) ==
  IF pieces = <<>> THEN acc ELSE feed(sha256_update(acc, Head(pieces)), Tail(pieces))

InitHash ==
  /\ \E f \in BaselineFiles : baseline = load_baseline(f)
  /\ now = 0
  /\ DASHBOARD_DATA = update_dashboard_data(ModuleData, baseline, now)
  /\ out = <<>>
  /\ last = NoEvent
  /\ allAlerts = <<>>
  /\ pc = "idle"
  /\ pending = <<>>
  /\ view = [alert_count |-> 0, file_count |-> DASHBOARD_DATA.file_count]
  /\ main = Watching
  /\ observer = "running"
  /\ queue = <<>>
  /\ \E content \in Contents :
       \E cuts \in SUBSET (1..(Len(content) - 1)) :
         call = [fn |-> "calculate_file_hash", content |-> content, cuts |-> cuts,
                 digests |-> <<>>, fed |-> <<>>]
  /\ twin = NoTwin
  /\ gen = NoGen

\* calculate_file_hash(file_path) on a readable file of that content
HashFile ==
  /\ Len(call.digests) < MaxHashCalls
  /\ call' = [call EXCEPT !.digests = Append(@, calculate_file_hash(ReadableFile(call.content)))]
  /\ UNCHANGED <<baseline, DASHBOARD_DATA, now, out, last, allAlerts, pc, pending, view, main, observer, queue, gen, twin>>

\* a fresh hasher is given the content in the pieces of call.cuts
HashPieces ==
  /\ call.fed = <<>>
  /\ call' = [call EXCEPT !.fed = <<hexdigest(feed(sha256_new, Pieces(call.content, call.cuts, 1)))>>]
  /\ UNCHANGED <<baseline, DASHBOARD_DATA, now, out, last, allAlerts, pc, pending, view, main, observer, queue, gen, twin>>

NextHash == HashFile \/ HashPieces

SpecHash == InitHash /\ [][NextHash]_vars

\* C25: every call of calculate_file_hash on the same content returns the
\* same digest, and that digest is the one of the content fed to a hasher in
\* any other pieces and the one of the content fed in one piece.
C25_ChunkIndependent ==
  /\ \A i \in DOMAIN call.digests :
       /\ call.digests[i] = call.digests[1]
       /\ call.digests[i] = Digest(call.content)
  /\ \A i \in DOMAIN call.fed :
       /\ call.fed[i] = Digest(call.content)
       /\ \A j \in DOMAIN call.digests : call.digests[j] = call.fed[i]

\* a content longer than one chunk was hashed twice and fed in pieces that
\* are not the chunks of the read loop
C25_Witness ==
  /\ Len(call.content) > ChunkSize
  /\ Len(call.digests) = 2
  /\ call.fed # <<>>
  /\ call.cuts = {1}

\* the main thread passes the startup notification of start_monitoring
StartupStep == main.pc = "email" /\ main'.pc = "loop"

\* C26: every entry of AlertHistory has one of the three violation types and
\* was appended by the handler of an event the decision table classifies as
\* a violation; the startup notification goes through send_alert and leaves
\* AlertHistory and the alert count as they were.
C26_OnlyViolationsRecorded ==
  [][/\ \A i \in DOMAIN AlertHistory' : AlertHistory'[i].type \in AlertTypes
     /\ AlertHistory' # AlertHistory
          => EventStep /\ LastVerdict' \in AlertTypes /\ AppendsOne(LastVerdict')
     /\ StartupStep
          => /\ AppendsNone
             /\ Len(AlertHistory') = Len(AlertHistory)
             /\ \E i \in DOMAIN out' : out'[i] = "smtp"]_vars

\* the startup notification was sent after an event had been recorded
C26_Witness ==
  /\ main.pc = "loop"
  /\ Emitted("smtp")
  /\ last.n = 1
  /\ Len(AlertHistory) = 1
  /\ last.kind = "DELETED"

(***************************************************************************)
(* SpecTwin: SafeBank_FIM/monitor.py and monitor_files.py started on the   *)
(* same baseline.json and given the same events, each with the same file   *)
(* at src_path and the same answer of the SMTP server.                     *)
(***************************************************************************)
TwinBaselineFiles == MfBaselineFiles \cup {[ok |-> TRUE, json |-> HashlessBaseline]}

InitTwin ==
  /\ now = 0
  /\ \E f \in TwinBaselineFiles :
       /\ baseline = load_baseline(f)
       /\ DASHBOARD_DATA = update_dashboard_data(ModuleData, baseline, now)
       /\ twin = mf_load_baseline_data(MfModuleData, f)
  /\ out = <<>>
  /\ last = NoEvent
  /\ allAlerts = <<>>
  /\ pc = "idle"
  /\ pending = <<>>
  /\ view = [alert_count |-> 0, file_count |-> DASHBOARD_DATA.file_count]
  /\ main = Watching
  /\ observer = "running"
  /\ queue = <<>>
  /\ call = NoCall
  /\ gen = NoGen

\* the observer thread of each monitor calls its handler of the same event
TwinHandle(kind, src_path, is_directory, file, smtp) ==
  LET returned(r, m) ==
        /\ DASHBOARD_DATA' = r.data
        /\ baseline' = r.baseline
        /\ out' = r.out
        /\ allAlerts' = allAlerts \o r.appended
        /\ pc' = IF r.raised \/ m.raised THEN "dead" ELSE pc
        /\ twin' = m.data
      e == [kind |-> kind, src_path |-> src_path, is_directory |-> is_directory]
  IN /\ pc = "idle"
     /\ returned(on_event(DASHBOARD_DATA, baseline, e, file, smtp, now),
                 mf_on_event(twin, baseline, e, file, smtp, now))
     /\ last' = [n |-> last.n + 1, kind |-> kind, src_path |-> src_path,
                 is_directory |-> is_directory, file |-> file, smtp |-> smtp,
                 before |-> Len(allAlerts)]
     /\ UNCHANGED <<now, pending, view, main, observer, queue, gen, call>>

TwinEvent ==
  /\ last.n < MaxTwinEvents
  /\ \E kind \in Kinds, src_path \in SrcPaths, is_directory \in BOOLEAN, smtp \in Smtp :
       \E file \in FilesFor(kind, is_directory) :
         TwinHandle(kind, src_path, is_directory, file, smtp)

NextTwin == TwinEvent

SpecTwin == InitTwin /\ [][NextTwin]_vars

\* the (type, path) entries of a list of alerts, in order
TypeAndPath(alerts) == [i \in DOMAIN alerts |-> <<alerts[i].type, alerts[i].path>>]

LeftByException == main.via = "exception"

\* C28: when start_monitoring leaves its try block by an exception other
\* than the interrupt, the join of the finally clause does not raise and does
\* not wait on an observer that was never told to stop.
C28_JoinEndsAfterException ==
  LeftByException
    => /\ main.pc # "crashed"
       /\ main.pc = "finally" => observer \in {"stopping", "stopped"}

====
